---- MODULE Spec2Model ----
(***************************************************************************)
(* The MNIST tutorial notebook (lab2/mnist_tutorial.ipynb) run top to      *)
(* bottom: the train/dev/test split, the three loaders, train_epoch,       *)
(* eval_epoch, the three training loops (linear, MLP, CNN) and the final   *)
(* evaluation on the test loader.  lab2/cifar_exercise.ipynb holds the     *)
(* same split, train_epoch, eval_epoch and training loop.                  *)
(*                                                                         *)
(* The deep-learning library is abstracted over integers: a model is one   *)
(* integer parameter, the forward pass yields one integer score per class, *)
(* the loss of a sample is a positive integer, and a mini-batch loss is    *)
(* the mean of its samples' losses (the library's default reduction),      *)
(* kept exactly as a multiple of 1/LossScale.                              *)
(***************************************************************************)
EXTENDS Integers, Sequences, FiniteSets, TLC

\* ---------------------------------------------------------------- bounds
MinN == 2
MaxN == 4
MaxTest == 3
MaxBatch == 2
MaxEpochs == 2
MaxSeed == 2
NumClasses == 2
ParamMod == 3

\* Three models are built in the notebook: linear, MLP, CNN.
NumModels == 3

VARIABLES
  pc,            \* position in the notebook / in the running function
  all_train,     \* the training source, a sequence of samples
  train, dev,    \* the two lists cut from all_train
  test,          \* the separate test source
  batch_size, epochs,
  stage,         \* which training cell is running: 1 linear, 2 MLP, 3 CNN
  params,        \* params[m]: the parameter of model m, NoParams before Model()
  training,      \* the current model's mode flag (model.train() / model.eval())
  grad,          \* the .grad buffer of the current model's parameter
  gradSrc,       \* the samples whose loss the .grad buffer holds the gradient of
  velocity,      \* the SGD momentum buffer of the current optimizer
  epoch,         \* the driver loop's variable
  loader,        \* the loader passed to the running train_epoch / eval_epoch
  remaining,     \* positions of the loader's dataset not yet yielded in this pass
  data,          \* the current mini-batch (data, target)
  output,        \* model(data): one score vector per sample of the batch
  loss,          \* the current mini-batch loss, times LossScale
  total_loss,    \* train_epoch's total_loss / eval_epoch's test_loss, times LossScale
  correct,       \* the running correct-prediction count of the running function
  num_samples,   \* len(loader.dataset) as read by the running function
  out,           \* the lines printed by the running cell
  printed,       \* the last metrics line printed
  steps,         \* the operations done so far in the current mini-batch iteration
  updates,       \* optimizer steps performed by the running train_epoch
  seen,          \* seen[p]: how often position p was fed to the model in this pass
  hits,          \* positions whose prediction matched the target in this pass
  sumSampleLoss, \* sum of the per-sample losses of the forward passes of this pass
  failedAt       \* where a library call raised, "" while none has

vars == <<pc, all_train, train, dev, test, batch_size, epochs, stage, params,
          training, grad, gradSrc, velocity, epoch, loader, remaining, data,
          output, loss, total_loss, correct, num_samples, out, printed, steps,
          updates, seen, hits, sumSampleLoss, failedAt>>

dataVars == <<all_train, train, dev, test>>
confVars == <<batch_size, epochs>>
modelVars == <<params, training, grad, gradSrc, velocity>>
passVars == <<remaining, seen, hits, sumSampleLoss>>
batchVars == <<data, output, loss, steps>>
statVars == <<total_loss, correct, num_samples>>

\* ---------------------------------------------------------------- helpers
Classes == 0 .. (NumClasses - 1)
NoParams == 0 - 1
NoLine == [name |-> "", epoch |-> 0, num |-> 0, den |-> 1, correct |-> 0, n |-> 0]

RECURSIVE Fact(_)
Fact(n) == IF n <= 1 THEN 1 ELSE n * Fact(n - 1)

\* Every mini-batch length divides LossScale, so a batch mean times LossScale
\* is an integer.
LossScale == Fact(MaxBatch)

RECURSIVE SumSeq(_)
SumSeq(s) == IF s = <<>> THEN 0 ELSE Head(s) + SumSeq(Tail(s))

RECURSIVE SetToSeq(_)
\* the elements of a set of integers in increasing order
SetToSeq(S) ==
  IF S = {} THEN <<>>
  ELSE LET m == CHOOSE x \in S : \A y \in S : x <= y
       IN <<m>> \o SetToSeq(S \ {m})

RECURSIVE Pow(_, _)
Pow(b, k) == IF k = 0 THEN 1 ELSE b * Pow(b, k - 1)

\* the label of the i-th sample of a source: the i-th digit of seed in base
\* NumClasses, so the seeds enumerate the labellings of the first samples
LabelOf(seed, i) == (seed \div Pow(NumClasses, i)) % NumClasses

Sample(src, i, y) == [src |-> src, idx |-> i, x |-> i % 2, y |-> y]

\* ------------------------------------------------- the library, abstracted
ScoreMod == NumClasses + ParamMod

\* model(x) for one sample: one score per class, from the model's
\* architecture m and parameter w
Scores(m, w, x) == [c \in Classes |-> ((c + 1) * (w + m) + c * x) % ScoreMod]

MaxScore(sc) == CHOOSE v \in {sc[c] : c \in Classes} : \A c \in Classes : sc[c] <= v

\* output.max(1)[1]: the index of the maximum score
Pred(sc) == CHOOSE c \in Classes :
              /\ sc[c] = MaxScore(sc)
              /\ \A d \in Classes : sc[d] = MaxScore(sc) => c <= d

\* the loss of one sample: positive, smallest when the target has the top score
SampleLoss(sc, y) == 1 + MaxScore(sc) - sc[y]

SampleGrad(sc, y) == MaxScore(sc) - sc[y]

Targets(batch) == [i \in 1 .. Len(batch) |-> batch[i].y]

\* model(data): the forward pass over a mini-batch
Forward(m, w, batch) == [i \in 1 .. Len(batch) |-> Scores(m, w, batch[i].x)]

\* F.cross_entropy(output, target) with the default reduction: the MEAN of
\* the samples' losses (times LossScale)
CrossEntropy(outp, target) ==
  (LossScale * SumSeq([i \in 1 .. Len(outp) |-> SampleLoss(outp[i], target[i])]))
    \div Len(outp)

\* the gradient of that mean loss (times LossScale)
BatchGrad(outp, target) ==
  (LossScale * SumSeq([i \in 1 .. Len(outp) |-> SampleGrad(outp[i], target[i])]))
    \div Len(outp)

\* pred.eq(target.view_as(pred)).sum().item()
NumCorrect(outp, target) ==
  Cardinality({i \in 1 .. Len(outp) : Pred(outp[i]) = target[i]})

\* optim.SGD(lr, momentum = 0.5): buf = buf/2 + grad; p = p - lr * buf,
\* both in the finite ring the parameter lives in
SgdVelocity(v, g) == ((v \div 2) + g) % ParamMod
SgdParam(w, v) == (w - v) % ParamMod

\* Model(): the fresh parameter of the m-th architecture
InitParam(m) == m % ParamMod

\* '{:.4f}' and '{:.0f}': a / b rounded to the nearest integer, ties to even
RoundDiv(a, b) ==
  LET q == a \div b
      r == a % b
  IN IF 2 * r < b THEN q
     ELSE IF 2 * r > b THEN q + 1
     ELSE IF q % 2 = 0 THEN q ELSE q + 1

\* ------------------------------------------------------------- the split
\* num_train = int(len(all_train) * .8)
NumTrain(n) == (8 * n) \div 10

\* train = [all_train[i] for i in range(num_train)]
TrainSplit(src) == SubSeq(src, 1, NumTrain(Len(src)))

\* mutant: the dev range starts one index late
DevSplit_SkipOne(src) == SubSeq(src, NumTrain(Len(src)) + 2, Len(src))

\* dev = [all_train[i] for i in range(num_train, len(all_train))]
DevSplit(src) == SubSeq(src, NumTrain(Len(src)) + 1, Len(src))

\* ------------------------------------------------------------ the loaders
\* DataLoader(train / dev / test, batch_size = batch_size, shuffle = True)
Dataset(ld) == IF ld = "train" THEN train ELSE IF ld = "dev" THEN dev ELSE test

\* mutant: mini-batches one sample too long
NextBatchSize_OffByOne(r, bs) == IF r < bs + 1 THEN r ELSE bs + 1

\* the length of the next mini-batch when r samples are left: the last
\* mini-batch of a pass is kept even when it is short (drop_last = False)
NextBatchSize(r, bs) == IF r < bs THEN r ELSE bs

\* shuffle = True: the next mini-batch is any NextBatchSize positions among
\* those the pass has not yielded yet
NextBatches(rem, bs) ==
  {S \in SUBSET rem : Cardinality(S) = NextBatchSize(Cardinality(rem), bs)}

\* positions left once the mini-batch S is yielded
AfterBatch(rem, S) == rem \ S

BatchOf(ld, S) == LET q == SetToSeq(S) IN [i \in 1 .. Len(q) |-> Dataset(ld)[q[i]]]

\* number of mini-batches of a pass over n samples
NumBatches(n, bs) == (n + bs - 1) \div bs

SampleId(s) == <<s.src, s.idx>>

\* ------------------------------------------------------------------ Init
\* The state once the two sources are downloaded.  The training source has
\* at least MinN samples, so that both train and dev are non-empty (a loader
\* over an empty list and the division by num_samples are outside the
\* notebook's use); the test source has MaxTest samples.
InitFrom(Seeds, TestSizes) ==
  \E n \in MinN .. MaxN, t \in TestSizes, bs \in 1 .. MaxBatch,
     e \in 0 .. MaxEpochs, seed \in Seeds :
    /\ pc = "load"
    /\ all_train = [i \in 1 .. n |-> Sample("train_source", i - 1, LabelOf(seed, i - 1))]
    /\ test = [i \in 1 .. t |-> Sample("test_source", i - 1, LabelOf(seed, i - 1))]
    /\ train = <<>>
    /\ dev = <<>>
    /\ batch_size = bs
    /\ epochs = e
    /\ stage = 0
    /\ params = [m \in 1 .. NumModels |-> NoParams]
    /\ training = TRUE
    /\ grad = 0
    /\ gradSrc = {}
    /\ velocity = 0
    /\ epoch = 0
    /\ loader = ""
    /\ remaining = {}
    /\ data = <<>>
    /\ output = <<>>
    /\ loss = 0
    /\ total_loss = 0
    /\ correct = 0
    /\ num_samples = 0
    /\ out = <<>>
    /\ printed = NoLine
    /\ steps = <<>>
    /\ updates = 0
    /\ seen = <<>>
    /\ hits = {}
    /\ sumSampleLoss = 0
    /\ failedAt = ""

Init == InitFrom(0 .. MaxSeed, {MaxTest})

\* the runs over one labelling
LiveInit == InitFrom({0}, {MaxTest})

\* --------------------------------------------------------- notebook cells
\* the cell that cuts all_train into train and dev
LoadData ==
  /\ pc = "load"
  /\ train' = TrainSplit(all_train)
  /\ dev' = DevSplit(all_train)
  /\ pc' = "setup"
  /\ UNCHANGED <<all_train, test, confVars, stage, modelVars, epoch, loader,
                 passVars, batchVars, statVars, out, printed, updates, failedAt>>

\* model = Model(); optimizer = optim.SGD(model.parameters(), ...), and the
\* start of the cell's training loop
NewModel(m) ==
  /\ stage' = m
  /\ params' = [params EXCEPT ![m] = InitParam(m)]
  /\ training' = TRUE
  /\ grad' = 0
  /\ gradSrc' = {}
  /\ velocity' = 0
  /\ epoch' = 0
  /\ out' = <<>>
  /\ pc' = "for"

\* the settings cell (loaders, first model, optimizer) and the Step 4 cell
Setup ==
  /\ pc = "setup"
  /\ NewModel(1)
  /\ UNCHANGED <<dataVars, confVars, loader, passVars, batchVars, statVars,
                 printed, updates, failedAt>>

\* the MLP cell and the CNN cell: a new Model and optimizer, then the loop
NextModelCell ==
  /\ pc = "cell_end"
  /\ stage < NumModels
  /\ NewModel(stage + 1)
  /\ UNCHANGED <<dataVars, confVars, loader, passVars, batchVars, statVars,
                 printed, updates, failedAt>>

\* ------------------------------------------------------- the driver loop
\* mutant: range(1, epochs + 2)
LoopHasNext_OffByOne(ep, e) == ep <= e

\* for epoch in range(1, epochs + 1): is there a value after ep?
LoopHasNext(ep, e) == ep < e

\* mutant: train_epoch(model, test_loader, ...)
TrainOnTest == "test"

\* the loaders the driver passes: train_epoch(model, train_loader, ...),
\* eval_epoch(model, dev_loader, "Dev"), eval_epoch(model, test_loader, "Test")
DriverTrainLoader == "train"
DriverEvalLoader == "dev"
FinalEvalLoader == "test"

NameOf(ld) == IF ld = "dev" THEN "Dev" ELSE "Test"

\* the loop takes its next epoch and calls train_epoch
ForNext ==
  /\ pc = "for"
  /\ LoopHasNext(epoch, epochs)
  /\ epoch' = epoch + 1
  /\ loader' = DriverTrainLoader
  /\ pc' = "t_enter"
  /\ UNCHANGED <<dataVars, confVars, stage, modelVars, passVars, batchVars,
                 statVars, out, printed, updates, failedAt>>

\* the range is exhausted: the cell ends
ForDone ==
  /\ pc = "for"
  /\ ~LoopHasNext(epoch, epochs)
  /\ pc' = "cell_end"
  /\ UNCHANGED <<dataVars, confVars, stage, modelVars, epoch, loader, passVars,
                 batchVars, statVars, out, printed, updates, failedAt>>

\* eval_epoch(model, dev_loader, "Dev") after train_epoch returned
CallEvalDev ==
  /\ pc = "call_eval"
  /\ loader' = DriverEvalLoader
  /\ pc' = "e_enter"
  /\ UNCHANGED <<dataVars, confVars, stage, modelVars, epoch, passVars,
                 batchVars, statVars, out, printed, updates, failedAt>>

\* print("---")
PrintSep ==
  /\ pc = "sep"
  /\ out' = Append(out, [kind |-> "---", epoch |-> 0])
  /\ pc' = "for"
  /\ UNCHANGED <<dataVars, confVars, stage, modelVars, epoch, loader, passVars,
                 batchVars, statVars, printed, updates, failedAt>>

\* the last code cell: eval_epoch(model, test_loader, "Test")
TestCell ==
  /\ pc = "cell_end"
  /\ stage = NumModels
  /\ loader' = FinalEvalLoader
  /\ out' = <<>>
  /\ pc' = "e_enter"
  /\ UNCHANGED <<dataVars, confVars, stage, modelVars, epoch, passVars,
                 batchVars, statVars, printed, updates, failedAt>>

\* ------------------------------------------------ iterating over a loader
\* mutant: a loader that drops the short last mini-batch (drop_last = True)
HasNextBatch_DropLast(r, bs) == r >= bs

\* the loader yields another mini-batch while samples are left
HasNextBatch(r, bs) == r > 0

Ids(ds) == {ds[i].idx : i \in 1 .. Len(ds)}

\* a fresh pass: iter(loader)
StartPass(ld) ==
  /\ remaining' = 1 .. Len(Dataset(ld))
  /\ seen' = [i \in Ids(Dataset(ld)) |-> 0]
  /\ hits' = {}
  /\ sumSampleLoss' = 0

\* the for statement fetches the next mini-batch
Fetch(next) ==
  /\ HasNextBatch(Cardinality(remaining), batch_size)
  /\ \E S \in NextBatches(remaining, batch_size) :
       /\ data' = BatchOf(loader, S)
       /\ remaining' = AfterBatch(remaining, S)
  /\ output' = <<>>
  /\ loss' = 0
  /\ steps' = <<>>
  /\ pc' = next

\* what a forward pass over the batch adds to the pass's records
NoteForward(outp) ==
  /\ seen' = [i \in DOMAIN seen |->
                seen[i] + Cardinality({k \in 1 .. Len(data) : data[k].idx = i})]
  /\ hits' = hits \cup {data[k].idx : k \in {j \in 1 .. Len(data) :
                                              Pred(outp[j]) = data[j].y}}

SampleLosses(outp, target) ==
  SumSeq([i \in 1 .. Len(outp) |-> SampleLoss(outp[i], target[i])])

\* ------------------------------------------------------------ train_epoch
\* mutant: train_epoch without its model.train()
TrainEnter_NoModeSet ==
  /\ pc = "t_enter"
  /\ total_loss' = 0
  /\ correct' = 0
  /\ num_samples' = Len(Dataset(loader))
  /\ updates' = 0
  /\ StartPass(loader)
  /\ pc' = "t_for"
  /\ UNCHANGED <<dataVars, confVars, stage, modelVars, epoch, loader, batchVars,
                 out, printed, failedAt>>

\* model.train(); total_loss = 0; correct = 0; num_samples = len(dataset)
TrainEnter ==
  /\ pc = "t_enter"
  /\ training' = TRUE
  /\ total_loss' = 0
  /\ correct' = 0
  /\ num_samples' = Len(Dataset(loader))
  /\ updates' = 0
  /\ StartPass(loader)
  /\ pc' = "t_for"
  /\ UNCHANGED <<dataVars, confVars, stage, params, grad, gradSrc, velocity,
                 epoch, loader, batchVars, out, printed, failedAt>>

TrainFetch ==
  /\ pc = "t_for"
  /\ Fetch("t_zero")
  /\ UNCHANGED <<dataVars, confVars, stage, modelVars, epoch, loader, seen, hits,
                 sumSampleLoss, statVars, out, printed, updates, failedAt>>

\* mutant: the loop body without its optimizer.zero_grad()
ZeroGrad_Skipped ==
  /\ pc = "t_zero"
  /\ steps' = Append(steps, "zero_grad")
  /\ pc' = "t_fwd"
  /\ UNCHANGED <<dataVars, confVars, stage, modelVars, epoch, loader, passVars,
                 data, output, loss, statVars, out, printed, updates, failedAt>>

\* optimizer.zero_grad()
ZeroGrad ==
  /\ pc = "t_zero"
  /\ grad' = 0
  /\ gradSrc' = {}
  /\ steps' = Append(steps, "zero_grad")
  /\ pc' = "t_fwd"
  /\ UNCHANGED <<dataVars, confVars, stage, params, training, velocity, epoch,
                 loader, passVars, data, output, loss, statVars, out, printed,
                 updates, failedAt>>

\* output = model(data)
TrainForward ==
  /\ pc = "t_fwd"
  /\ output' = Forward(stage, params[stage], data)
  /\ NoteForward(output')
  /\ steps' = Append(steps, "forward")
  /\ pc' = "t_loss"
  /\ UNCHANGED <<dataVars, confVars, stage, modelVars, epoch, loader, remaining,
                 sumSampleLoss, data, loss, statVars, out, printed, updates,
                 failedAt>>

\* loss = F.cross_entropy(output, target)
TrainLoss ==
  /\ pc = "t_loss"
  /\ loss' = CrossEntropy(output, Targets(data))
  /\ sumSampleLoss' = sumSampleLoss + SampleLosses(output, Targets(data))
  /\ steps' = Append(steps, "loss")
  /\ pc' = "t_bwd"
  /\ UNCHANGED <<dataVars, confVars, stage, modelVars, epoch, loader, remaining,
                 seen, hits, data, output, statVars, out, printed, updates,
                 failedAt>>

\* loss.backward(): the gradient is ADDED to the .grad buffer
Backward ==
  /\ pc = "t_bwd"
  /\ grad' = grad + BatchGrad(output, Targets(data))
  /\ gradSrc' = gradSrc \cup {SampleId(data[i]) : i \in 1 .. Len(data)}
  /\ steps' = Append(steps, "backward")
  /\ pc' = "t_step"
  /\ UNCHANGED <<dataVars, confVars, stage, params, training, velocity, epoch,
                 loader, passVars, data, output, loss, statVars, out, printed,
                 updates, failedAt>>

\* mutant: the loop body without its optimizer.step()
OptStep_Skipped ==
  /\ pc = "t_step"
  /\ pc' = "t_stats"
  /\ UNCHANGED <<dataVars, confVars, stage, modelVars, epoch, loader, passVars,
                 batchVars, statVars, out, printed, updates, failedAt>>

\* optimizer.step()
OptStep ==
  /\ pc = "t_step"
  /\ velocity' = SgdVelocity(velocity, grad)
  /\ params' = [params EXCEPT ![stage] = SgdParam(@, velocity')]
  /\ updates' = updates + 1
  /\ steps' = Append(steps, "step")
  /\ pc' = "t_stats"
  /\ UNCHANGED <<dataVars, confVars, stage, training, grad, gradSrc, epoch,
                 loader, passVars, data, output, loss, statVars, out, printed,
                 failedAt>>

\* pred = output.max(1)[1]; correct += ...; total_loss += loss.detach()
TrainStats ==
  /\ pc = "t_stats"
  /\ correct' = correct + NumCorrect(output, Targets(data))
  /\ total_loss' = total_loss + loss
  /\ pc' = "t_for"
  /\ UNCHANGED <<dataVars, confVars, stage, modelVars, epoch, loader, passVars,
                 batchVars, num_samples, out, printed, updates, failedAt>>

\* the metrics line: loss total_loss / num_samples, accuracy correct / num_samples
MetricsLine(nm, ep) ==
  [name |-> nm, epoch |-> ep, num |-> total_loss, den |-> LossScale * num_samples,
   correct |-> correct, n |-> num_samples]

\* the loader is exhausted: print('Train Epoch: ...') and return
TrainPrint ==
  /\ pc = "t_for"
  /\ ~HasNextBatch(Cardinality(remaining), batch_size)
  /\ printed' = MetricsLine("Train", epoch)
  /\ out' = Append(out, [kind |-> "Train", epoch |-> epoch])
  /\ pc' = "call_eval"
  /\ UNCHANGED <<dataVars, confVars, stage, modelVars, epoch, loader, passVars,
                 batchVars, statVars, updates, failedAt>>

\* ------------------------------------------------------------- eval_epoch
\* mutant: eval_epoch that does not start its count from 0
EvalEnter_KeepsCount ==
  /\ pc = "e_enter"
  /\ training' = FALSE
  /\ total_loss' = 0
  /\ num_samples' = Len(Dataset(loader))
  /\ StartPass(loader)
  /\ pc' = "e_for"
  /\ UNCHANGED <<dataVars, confVars, stage, params, grad, gradSrc, velocity,
                 epoch, loader, batchVars, correct, out, printed, updates, failedAt>>

\* model.eval(); test_loss = 0; correct = 0
EvalEnter ==
  /\ pc = "e_enter"
  /\ training' = FALSE
  /\ total_loss' = 0
  /\ correct' = 0
  /\ num_samples' = Len(Dataset(loader))
  /\ StartPass(loader)
  /\ pc' = "e_for"
  /\ UNCHANGED <<dataVars, confVars, stage, params, grad, gradSrc, velocity,
                 epoch, loader, batchVars, out, printed, updates, failedAt>>

EvalFetch ==
  /\ pc = "e_for"
  /\ Fetch("e_fwd")
  /\ UNCHANGED <<dataVars, confVars, stage, modelVars, epoch, loader, seen, hits,
                 sumSampleLoss, statVars, out, printed, updates, failedAt>>

\* output = model(data)
EvalForward ==
  /\ pc = "e_fwd"
  /\ output' = Forward(stage, params[stage], data)
  /\ NoteForward(output')
  /\ steps' = Append(steps, "forward")
  /\ pc' = "e_loss"
  /\ UNCHANGED <<dataVars, confVars, stage, modelVars, epoch, loader, remaining,
                 sumSampleLoss, data, loss, statVars, out, printed, updates,
                 failedAt>>

\* mutant: eval_epoch that also takes a gradient step on its batch
EvalLoss_Updates ==
  /\ pc = "e_loss"
  /\ loss' = CrossEntropy(output, Targets(data))
  /\ total_loss' = total_loss + loss'
  /\ sumSampleLoss' = sumSampleLoss + SampleLosses(output, Targets(data))
  /\ params' = [params EXCEPT ![stage] = SgdParam(@, 1 + BatchGrad(output, Targets(data)))]
  /\ steps' = Append(steps, "loss")
  /\ pc' = "e_stats"
  /\ UNCHANGED <<dataVars, confVars, stage, training, grad, gradSrc, velocity,
                 epoch, loader, remaining, seen, hits, data, output, correct,
                 num_samples, out, printed, updates, failedAt>>

\* test_loss += F.cross_entropy(output, target).item()
EvalLoss ==
  /\ pc = "e_loss"
  /\ loss' = CrossEntropy(output, Targets(data))
  /\ total_loss' = total_loss + loss'
  /\ sumSampleLoss' = sumSampleLoss + SampleLosses(output, Targets(data))
  /\ steps' = Append(steps, "loss")
  /\ pc' = "e_stats"
  /\ UNCHANGED <<dataVars, confVars, stage, modelVars, epoch, loader, remaining,
                 seen, hits, data, output, correct, num_samples, out, printed,
                 updates, failedAt>>

\* pred = output.max(1)[1]; correct += ...
EvalStats ==
  /\ pc = "e_stats"
  /\ correct' = correct + NumCorrect(output, Targets(data))
  /\ pc' = "e_for"
  /\ UNCHANGED <<dataVars, confVars, stage, modelVars, epoch, loader, passVars,
                 batchVars, total_loss, num_samples, out, printed, updates,
                 failedAt>>

\* test_loss /= len(dataset); print('... set: Average loss: ...') and return
EvalPrint ==
  /\ pc = "e_for"
  /\ ~HasNextBatch(Cardinality(remaining), batch_size)
  /\ printed' = MetricsLine(NameOf(loader), 0)
  /\ out' = Append(out, [kind |-> NameOf(loader), epoch |-> 0])
  /\ pc' = IF loader = DriverEvalLoader THEN "sep" ELSE "end"
  /\ UNCHANGED <<dataVars, confVars, stage, modelVars, epoch, loader, passVars,
                 batchVars, statVars, updates, failedAt>>

\* ---------------------------------------------------------------- failure
\* the library calls of a mini-batch: forward, loss, backward, optimizer step
FailPoints == {"t_fwd", "t_loss", "t_bwd", "t_step", "e_fwd", "e_loss"}

\* mutant: the failure is caught and the loop goes on with the next mini-batch
Fail_Swallowed ==
  /\ pc \in {"t_fwd", "t_loss", "t_bwd", "t_step", "e_fwd", "e_loss"}
  /\ failedAt' = pc
  /\ pc' = IF pc \in {"t_fwd", "t_loss", "t_bwd", "t_step"} THEN "t_for" ELSE "e_for"
  /\ UNCHANGED <<dataVars, confVars, stage, modelVars, epoch, loader, passVars,
                 batchVars, statVars, out, printed, updates>>

\* a library call raises; nothing in the notebook catches it, so the
\* exception leaves the function, the loop and the cell, and the run stops
Fail ==
  /\ pc \in FailPoints
  /\ failedAt' = pc
  /\ pc' = "failed"
  /\ UNCHANGED <<dataVars, confVars, stage, modelVars, epoch, loader, passVars,
                 batchVars, statVars, out, printed, updates>>

Next ==
  \/ LoadData
  \/ Setup
  \/ NextModelCell
  \/ TestCell
  \/ ForNext
  \/ ForDone
  \/ CallEvalDev
  \/ PrintSep
  \/ TrainEnter
  \/ TrainFetch
  \/ ZeroGrad
  \/ TrainForward
  \/ TrainLoss
  \/ Backward
  \/ OptStep
  \/ TrainStats
  \/ TrainPrint
  \/ EvalEnter
  \/ EvalFetch
  \/ EvalForward
  \/ EvalLoss
  \/ EvalStats
  \/ EvalPrint
  \/ Fail

Spec == Init /\ [][Next]_vars

\* A notebook cell runs its statements one after the other, so a step that
\* can be taken is eventually taken.
LiveSpec == LiveInit /\ [][Next]_vars /\ WF_vars(Next)

\* ================================================================ claims
TrainPcs == {"t_enter", "t_for", "t_zero", "t_fwd", "t_loss", "t_bwd", "t_step", "t_stats"}
EvalPcs == {"e_enter", "e_for", "e_fwd", "e_loss", "e_stats"}
\* positions at which data holds the mini-batch being processed
InBatchPcs == {"t_zero", "t_fwd", "t_loss", "t_bwd", "t_step", "t_stats",
               "e_fwd", "e_loss", "e_stats"}
\* positions right after a metrics line was printed
PrintedPcs == {"call_eval", "sep", "end"}

IsPrefix(a, b) == Len(a) <= Len(b) /\ SubSeq(b, 1, Len(a)) = a

BatchOrder == <<"zero_grad", "forward", "loss", "backward", "step">>

\* C1: in every mini-batch iteration of train_epoch the operations happen in
\* the order zero_grad, forward, loss, backward, optimizer step, with exactly
\* one optimizer step per mini-batch; when train_epoch has gone over the B
\* mini-batches of its loader, exactly B updates have been applied.
C1_StepOrderAndCount ==
  /\ pc \in {"t_zero", "t_fwd", "t_loss", "t_bwd", "t_step"} => IsPrefix(steps, BatchOrder)
  /\ pc = "t_zero" => steps = <<>>
  /\ pc = "t_step" => steps = SubSeq(BatchOrder, 1, 4)
  /\ pc = "t_stats" => steps = BatchOrder
  /\ pc = "call_eval" => updates = NumBatches(Len(train), batch_size)

C1_Witness ==
  /\ pc = "call_eval"
  /\ epoch = 2
  /\ updates = 2
  /\ batch_size = 2

\* C2: one call of train_epoch or eval_epoch is one full pass: when the call
\* has printed its metrics, every sample of the loader's dataset has been fed
\* to the model exactly once, whatever order the shuffle chose; during the
\* pass no sample has been fed twice.
C2_FullPass ==
  /\ pc \in (TrainPcs \cup EvalPcs) \ {"t_enter", "e_enter"} =>
       /\ DOMAIN seen = Ids(Dataset(loader))
       /\ \A i \in DOMAIN seen : seen[i] <= 1
  /\ pc \in PrintedPcs =>
       /\ DOMAIN seen = Ids(Dataset(loader))
       /\ \A i \in DOMAIN seen : seen[i] = 1

C2_Witness ==
  /\ pc = "end"
  /\ Len(test) = 3
  /\ batch_size = 2
  /\ \A i \in Ids(test) : seen[i] = 1

RECURSIVE LoopOutput(_)
\* the lines of e complete iterations of the driver loop
LoopOutput(e) ==
  IF e = 0 THEN <<>>
  ELSE LoopOutput(e - 1) \o <<[kind |-> "Train", epoch |-> e],
                              [kind |-> "Dev", epoch |-> 0],
                              [kind |-> "---", epoch |-> 0]>>

DriverShape ==
  /\ stage >= 1 /\ loader # FinalEvalLoader /\ pc # "failed" =>
       /\ epoch \in 0 .. epochs
       /\ pc \in {"for", "cell_end"} => out = LoopOutput(epoch)
       /\ pc \in TrainPcs => out = LoopOutput(epoch - 1)
       /\ pc \in {"call_eval"} \cup EvalPcs =>
            out = LoopOutput(epoch - 1) \o <<[kind |-> "Train", epoch |-> epoch]>>
       /\ pc = "sep" =>
            out = LoopOutput(epoch - 1) \o <<[kind |-> "Train", epoch |-> epoch],
                                             [kind |-> "Dev", epoch |-> 0]>>
  /\ pc = "cell_end" => epoch = epochs /\ Len(out) = 3 * epochs

\* C3: each training loop performs exactly `epochs` iterations, numbered
\* 1..epochs in increasing order, each one train_epoch on the train loader,
\* then eval_epoch on the dev loader, then the separator line; and the run
\* comes to an end (the last cell finishes, or a library call raises).
C3_DriverTerminates == []DriverShape /\ <>(pc \in {"end", "failed"})

C3_Witness ==
  /\ pc = "cell_end"
  /\ stage = 2
  /\ epochs = 2
  /\ out = LoopOutput(2)

\* C4: the split is a partition by position: train is all_train[0 ..
\* floor(0.8 N) - 1] in order, dev is all_train[floor(0.8 N) .. N - 1] in
\* order; they are disjoint, cover every index once and their lengths add up
\* to N (48000 and 12000 for N = 60000); test comes from another source.
C4_SplitPartition ==
  /\ pc # "load" =>
       LET n == Len(all_train)
           k == (4 * n) \div 5
       IN /\ Len(train) = k
          /\ Len(dev) = n - k
          /\ \A i \in 1 .. k : train[i] = all_train[i] /\ train[i].idx = i - 1
          /\ \A i \in 1 .. (n - k) : dev[i] = all_train[k + i] /\ dev[i].idx = k + i - 1
          /\ Ids(train) \cap Ids(dev) = {}
          /\ Ids(train) \cup Ids(dev) = 0 .. (n - 1)
          /\ train \o dev = all_train
          /\ \A i \in 1 .. Len(test) : test[i].src # all_train[1].src
  /\ NumTrain(60000) = 48000
  /\ 60000 - NumTrain(60000) = 12000

C4_Witness ==
  /\ pc = "setup"
  /\ Len(train) >= 2
  /\ Len(dev) >= 1
  /\ 5 * Len(train) < 4 * Len(all_train)

\* C5 as claimed: every mini-batch processed holds exactly batch_size samples.
C5_EveryBatchFull == pc \in InBatchPcs => Len(data) = batch_size

\* C5 amended: every mini-batch holds between 1 and batch_size samples, and
\* only the last mini-batch of a pass can hold fewer than batch_size: it then
\* holds the len(dataset) mod batch_size samples that were left.
C5_BatchSizes ==
  pc \in InBatchPcs =>
    /\ Len(data) >= 1
    /\ Len(data) <= batch_size
    /\ Len(data) # batch_size =>
         /\ remaining = {}
         /\ Len(data) = Len(Dataset(loader)) % batch_size

C5_Witness ==
  /\ pc = "t_fwd"
  /\ batch_size = 2
  /\ Len(data) = 1
  /\ Len(train) = 3

\* C6: the datasets are never modified once built, and the parameters of a
\* built model change only in the optimizer step of train_epoch (of the model
\* being trained): eval_epoch leaves them alone, so an epoch starts from the
\* parameters the previous epoch's last optimizer step left.
C6_FrameStep ==
  /\ pc # "load" => UNCHANGED dataVars
  /\ all_train' = all_train /\ test' = test
  /\ \A m \in 1 .. NumModels :
       (params[m] # NoParams /\ params'[m] # params[m]) => (pc = "t_step" /\ m = stage)

C6_Frame == [][C6_FrameStep]_vars

C6_Witness ==
  /\ pc = "t_enter"
  /\ epoch = 2
  /\ params[stage] # InitParam(stage)

\* what the metrics line shows: the loss to four decimals
ShownLoss(num, den) == RoundDiv(10000 * num, den)

\* C7: the loss printed by train_epoch and eval_epoch is the average loss of
\* the epoch: the sum of the per-sample losses divided by the number of
\* samples.
C7_AverageLoss ==
  pc \in PrintedPcs =>
    ShownLoss(printed.num, printed.den) = ShownLoss(sumSampleLoss, printed.n)

\* C8: the count a call reports starts from 0 in that call and is the number
\* of samples of its dataset whose predicted class equals the target; so
\* 0 <= correct <= number of samples, the percentage is within 0..100, and
\* nothing carries over from an earlier epoch or from the other function.
C8_CorrectCount ==
  /\ pc \in (TrainPcs \cup EvalPcs) \ {"t_enter", "e_enter"} =>
       /\ correct >= 0
       /\ correct <= Cardinality(hits)
       /\ Cardinality(hits) <= num_samples
       /\ num_samples = Len(Dataset(loader))
  /\ pc \in PrintedPcs =>
       /\ printed.correct = Cardinality(hits)
       /\ printed.n = Len(Dataset(loader))
       /\ printed.correct >= 0 /\ printed.correct <= printed.n
       /\ RoundDiv(100 * printed.correct, printed.n) \in 0 .. 100
  /\ pc \in {"sep", "end"} =>
       printed.correct =
         Cardinality({i \in 1 .. Len(Dataset(loader)) :
            Pred(Scores(stage, params[stage], Dataset(loader)[i].x)) = Dataset(loader)[i].y})

C8_Witness ==
  /\ pc = "sep"
  /\ epoch = 2
  /\ printed.correct = 1
  /\ correct = 1
  /\ \E i \in 1 .. Len(train) :
       Pred(Scores(stage, params[stage], train[i].x)) = train[i].y

\* the metrics line of the call that failed is not among the printed lines
NoMetricsOfFailedCall ==
  IF failedAt \in TrainPcs
  THEN out = LoopOutput(epoch - 1)
  ELSE IF loader = FinalEvalLoader
       THEN out = <<>>
       ELSE out = LoopOutput(epoch - 1) \o <<[kind |-> "Train", epoch |-> epoch]>>

\* C9: a failure in a step of a mini-batch is not caught or retried: it
\* leaves the function and the epoch loop, so nothing runs after it (no
\* mini-batch, no epoch, no cell) and the failing call prints no metrics line.
C9_FailureStops ==
  /\ [](failedAt # "" => pc = "failed" /\ NoMetricsOfFailedCall)
  /\ [][failedAt # "" => UNCHANGED vars]_vars

C9_Witness ==
  /\ pc = "failed"
  /\ failedAt = "t_bwd"
  /\ epoch = 2
  /\ remaining # {}

TestIds == {SampleId(test[i]) : i \in 1 .. Len(test)}

HeldOut ==
  /\ pc \in TrainPcs => loader = "train"
  /\ gradSrc \cap TestIds = {}
  /\ \A id \in gradSrc : id[1] = "train_source"
  /\ loader = "test" =>
       /\ stage = NumModels
       /\ epoch = epochs
       /\ pc \in EvalPcs \cup {"end", "failed"}
       /\ params[stage] # NoParams

\* C10: the test partition is held out: train_epoch never gets the test
\* loader, no gradient (hence no optimizer step) is computed from a test
\* sample, and the evaluation on the test loader happens once, after all
\* three training loops have finished, with no training after it.
C10_TestHeldOut ==
  /\ []HeldOut
  /\ [][loader = "test" => loader' = "test" /\ params' = params]_vars

C10_Witness ==
  /\ pc = "end"
  /\ loader = "test"
  /\ epochs = 2
  /\ gradSrc # {}
  /\ printed.name = "Test"

\* the model the last cell passes to eval_epoch: the name `model` is bound to
\* the Model() built last
TestedModel == stage

\* the dev-set result of model m: the number of dev samples it classifies
\* correctly with the parameters its training left (its last "Dev set" line)
DevCorrect(m) ==
  Cardinality({i \in 1 .. Len(dev) :
     Pred(Scores(m, params[m], dev[i].x)) = dev[i].y})

\* C11: the model evaluated on the test set is the best model: among the
\* models trained in the notebook none achieved a better result on the dev
\* set than the one passed to eval_epoch with the test loader.
C11_BestModelTested ==
  (pc = "end" /\ epochs >= 1) =>
    \A m \in 1 .. NumModels : DevCorrect(m) <= DevCorrect(TestedModel)

\* C12: the model is in train mode during every forward pass of train_epoch
\* and in eval mode during every forward pass of eval_epoch, whatever call
\* came before: a train_epoch that follows an eval_epoch does not run in the
\* eval mode that call left behind.
C12_ModeMatchesCall ==
  /\ pc \in TrainPcs \ {"t_enter"} => training = TRUE
  /\ pc \in EvalPcs \ {"e_enter"} => training = FALSE
  /\ pc = "t_loss" => training = TRUE /\ Len(output) = Len(data)
  /\ pc = "e_loss" => training = FALSE /\ Len(output) = Len(data)

C12_Witness ==
  /\ pc = "t_loss"
  /\ epoch = 2
  /\ updates = 0
  /\ training = TRUE
  /\ printed.name = "Dev"

BatchIds == {SampleId(data[i]) : i \in 1 .. Len(data)}

\* C13: gradients never accumulate across mini-batches: the gradient each
\* optimizer step consumes is the gradient of the current mini-batch's loss
\* alone, also for the first mini-batch of an epoch that follows an
\* eval_epoch or an earlier epoch.
C13_GradOfBatchAlone ==
  pc \in {"t_step", "t_stats"} =>
    /\ grad = BatchGrad(output, Targets(data))
    /\ gradSrc = BatchIds

C13_Witness ==
  /\ pc = "t_step"
  /\ epoch = 2
  /\ updates = 0
  /\ grad > 0
  /\ velocity > 0
  /\ printed.name = "Dev"

====
